---- MODULE Spec2Model ----
(***************************************************************************)
(* Model of the MQ class of @avocajs/mq (README.md, lines 190-372): an     *)
(* in-memory FIFO job queue with a per-item residency timer and a maximum  *)
(* size.  The host is Node's single-threaded event loop: every public      *)
(* method and every timer callback runs to completion, listeners run       *)
(* synchronously inside emit, and a timer never fires before it is due.    *)
(* Time is kept per timer, as the delay that is left before it is due.     *)
(***************************************************************************)
EXTENDS Integers, Sequences, FiniteSets, TLC

(***************************************************************************)
(* Bounds of the model.                                                    *)
(***************************************************************************)
\* number of Symbol() identifiers the model hands out (admitted pushes)
MaxIds == 2
\* listeners registered in all, over the two events
MaxListeners == 2
\* nested push() frames the engine allows before RangeError
MaxStack == 2

(***************************************************************************)
(* JavaScript values: a type tag and a payload.                            *)
(***************************************************************************)
Undefined == [type |-> "undefined", v |-> 0]
Null == [type |-> "null", v |-> 0]
Str == [type |-> "string", v |-> 0]
Infinity == [type |-> "infinity", v |-> 0]
Int_(n) == [type |-> "integer", v |-> n]
\* the non-integer number n + 1/2
Frac(n) == [type |-> "fraction", v |-> n]
\* a function value, told apart by reference
Fn(k) == [type |-> "function", v |-> k]
Bool(b) == [type |-> "boolean", v |-> IF b THEN 1 ELSE 0]
\* an array of n jobs; its elements are kept beside it
Array(n) == [type |-> "array", v |-> n]

\* the jobs the callers push: two distinct functions
Jobs == {Fn(1), Fn(2)}
\* the non-callable arguments of the test "jobs must be functions"
NonCallables == {Undefined, Str}
\* constructor arguments tried; the clock counts in units of the delay given
\* to a valid queue
TimeArgs ==
  {Undefined, Int_(-1), Int_(0), Int_(1), Frac(1), Infinity}
SizeArgs ==
  {Undefined, Int_(-1), Int_(0), Int_(1), Int_(2), Frac(1), Infinity}

\* the listeners the README and the tests register: one that calls the job,
\* one that pushes the job back into the same queue
ListenerKinds == {"call", "repush"}
Events == {"MaxQueueSize", "MaxQueueTime"}

(***************************************************************************)
(* @avocajs/check predicates used by the class.                            *)
(***************************************************************************)
isInteger(x) == x.type = "integer"
isInfinity(x) == x.type = "infinity"
isFunction(x) == x.type = "function"
isUndefined(x) == x.type = "undefined"
\* x > n for a JavaScript value x and an integer n
isGreaterThan(x, n) ==
  CASE x.type = "integer" -> x.v > n
    [] x.type = "fraction" -> x.v >= n
    [] x.type = "infinity" -> TRUE
    [] OTHER -> FALSE

VARIABLES
  status,        \* "unconstructed", "ok" (the object exists) or "error"
  argT, argS,    \* the arguments given to the constructor
  MaxQueueTime, maxQueueSize,   \* the private fields
  queue,         \* this.queue: items [id, timeoutID, callback], index 1 first
  timers,        \* the host's pending timers: [timeoutID, id, left]
  nextSym,       \* the next Symbol()
  nextTimer,     \* the next timeout handle
  listeners,     \* event -> sequence of listener kinds, in subscription order
  pulled,        \* history: identifiers handed out by pull()/batch(), in order
  aged,          \* history: identifiers of the MaxQueueTime emits, in order
  lastOp         \* the last call: what was called, what it returned or
                 \* threw, the emits and the listener calls it made

vars == <<status, argT, argS, MaxQueueTime, maxQueueSize, queue, timers,
          nextSym, nextTimer, listeners, pulled, aged, lastOp>>

\* the part of the state a call works on, threaded through the operators;
\* took lists the identifiers of the items whose job the call returned
Cur ==
  [queue |-> queue, timers |-> timers, nextSym |-> nextSym,
   nextTimer |-> nextTimer,
   took |-> <<>>, ret |-> Undefined, jobs |-> <<>>, threw |-> "none",
   message |-> "", emits |-> <<>>, calls |-> <<>>]

\* what the six queries return when none was called
NoView ==
  [shouldPush |-> Undefined, size |-> Undefined, hasJob |-> Undefined,
   hasNoJob |-> Undefined, getMaxQueueTime |-> Undefined,
   getMaxQueueSize |-> Undefined]

NoOp == [op |-> "none", arg |-> Undefined, id |-> 0, ret |-> Undefined,
         jobs |-> <<>>, threw |-> "none", message |-> "", emits |-> <<>>,
         calls |-> <<>>, view |-> NoView]

(***************************************************************************)
(* The host: timers and the event emitter.                                 *)
(***************************************************************************)
\* the delay is left out: the timer is due at once
setTimeoutNoDelay(S, id, delay) ==
  [S EXCEPT !.timers = @ \cup {[timeoutID |-> S.nextTimer, id |-> id,
                                left |-> 0]},
            !.nextTimer = @ + 1]

\* setTimeout(callback, delay): a one-shot timer whose closure holds id
setTimeout(S, id, delay) ==
  [S EXCEPT !.timers = @ \cup {[timeoutID |-> S.nextTimer, id |-> id,
                                left |-> delay]},
            !.nextTimer = @ + 1]

\* the timer is left pending
clearTimeoutNone(S, timeoutID) == S

\* clearTimeout(timeoutID): the timer, if still pending, will not fire
clearTimeout(S, timeoutID) ==
  [S EXCEPT !.timers = {t \in @ : t.timeoutID # timeoutID}]

\* the pending timers the event loop may run now
DueTimers == {t \in timers : t.left = 0}

\* the event loop runs due timers by expiry time, then by creation; all
\* the timers have the same delay, so the first created is the first due
NextTimer ==
  CHOOSE t \in DueTimers : \A u \in DueTimers : t.timeoutID <= u.timeoutID

(***************************************************************************)
(* The methods of MQ.                                                      *)
(***************************************************************************)
size(S) == Len(S.queue)

\* the last free place is refused
shouldPushStrict(S) ==
  maxQueueSize.type = "infinity" \/ isGreaterThan(maxQueueSize, size(S) + 1)

\* a full queue still admits one more
shouldPushOffByOne(S) ==
  maxQueueSize.type = "infinity" \/ isGreaterThan(maxQueueSize, size(S) - 1)

shouldPush(S) ==
  maxQueueSize.type = "infinity" \/ isGreaterThan(maxQueueSize, size(S))

\* push() of the array where unshift() should be: the new item goes to the
\* end pull() pops from
admitAtBack(S, job) ==
  LET id == S.nextSym
      T == setTimeout(S, id, MaxQueueTime.v)
  IN [T EXCEPT !.nextSym = id + 1,
               !.queue = @ \o <<[id |-> id, timeoutID |-> S.nextTimer,
                                 callback |-> job]>>]

\* the admission branch of push: Symbol(), setTimeout, unshift
admit(S, job) ==
  LET id == S.nextSym
      T == setTimeout(S, id, MaxQueueTime.v)
  IN [T EXCEPT !.nextSym = id + 1,
               !.queue = <<[id |-> id, timeoutID |-> S.nextTimer,
                            callback |-> job]>> \o @]

RECURSIVE push(_, _, _)
RECURSIVE runListeners(_, _, _, _, _)

\* F(x), with x computed once before F looks at it
Then(x, F(_)) == CHOOSE r \in {F(y) : y \in {x}} : TRUE

\* one listener: (job) => job()  or  (job) => queue.push(job)
listener(S, kind, job, depth) ==
  IF kind = "repush" THEN push(S, job, depth + 1) ELSE S

\* the listeners of one emit, in subscription order; a throw ends the emit
runListeners(S, event, job, i, depth) ==
  IF i > Len(listeners[event]) \/ S.threw # "none"
  THEN S
  ELSE LET kind == listeners[event][i]
           seen == [S EXCEPT !.calls = Append(@,
                      [event |-> event, idx |-> i, kind |-> kind,
                       job |-> job, size |-> size(S)])]
       IN Then(listener(seen, kind, job, depth),
               LAMBDA T : runListeners(T, event, job, i + 1, depth))

\* this.emit(event, job)
emit(S, event, job, depth) ==
  runListeners([S EXCEPT !.emits = Append(@, [event |-> event, job |-> job])],
               event, job, 1, depth)

\* a refused job is dropped without a word
pushSilent(S, job, depth) ==
  IF depth > MaxStack THEN [S EXCEPT !.threw = "RangeError"]
  ELSE IF ~isFunction(job)
  THEN [S EXCEPT !.threw = "MQError", !.message = "job"]
  ELSE IF ~shouldPush(S) THEN S
  ELSE admit(S, job)

\* the capacity is looked at before the argument
pushCheckLate(S, job, depth) ==
  IF depth > MaxStack THEN [S EXCEPT !.threw = "RangeError"]
  ELSE IF ~shouldPush(S) THEN emit(S, "MaxQueueSize", job, depth)
  ELSE IF ~isFunction(job)
  THEN [S EXCEPT !.threw = "MQError", !.message = "job"]
  ELSE admit(S, job)

\* the return after the emit is missing: a refused job is queued all the same
pushNoReturn(S, job, depth) ==
  IF depth > MaxStack THEN [S EXCEPT !.threw = "RangeError"]
  ELSE IF ~isFunction(job)
  THEN [S EXCEPT !.threw = "MQError", !.message = "job"]
  ELSE Then(S, LAMBDA T :
         IF ~shouldPush(T)
         THEN Then(emit(T, "MaxQueueSize", job, depth),
                   LAMBDA U : IF U.threw # "none" THEN U ELSE admit(U, job))
         ELSE admit(T, job))

\* push(job); depth counts the push frames on the stack
push(S, job, depth) ==
  IF depth > MaxStack THEN [S EXCEPT !.threw = "RangeError"]
  ELSE IF ~isFunction(job)
  THEN [S EXCEPT !.threw = "MQError", !.message = "job"]
  ELSE Then(S, LAMBDA T : IF ~shouldPush(T)
                          THEN emit(T, "MaxQueueSize", job, depth)
                          ELSE admit(T, job))

\* this.queue.find((job) => job.id === id): index of the first match, or 0
find(q, id) ==
  IF \E i \in 1..Len(q) : q[i].id = id
  THEN CHOOSE i \in 1..Len(q) :
         q[i].id = id /\ \A j \in 1..(i - 1) : q[j].id # id
  ELSE 0

\* nothing is filtered out
filterNone(q, id) == q

\* the items are compared by their job, not by their identifier
filterByJob(q, id) ==
  IF find(q, id) = 0
  THEN q
  ELSE SelectSeq(q, LAMBDA item : item.callback # q[find(q, id)].callback)

\* the test is inverted: the expired item is the one that is kept
filterInverted(q, id) == SelectSeq(q, LAMBDA item : item.id = id)

\* this.queue.filter((job) => job.id !== id)
filter(q, id) == SelectSeq(q, LAMBDA item : item.id # id)

\* the listeners run first, the item is removed after them
callbackEmitFirst(S, id) ==
  LET i == find(S.queue, id)
  IN IF i = 0
     THEN [S EXCEPT !.threw = "TypeError"]
     ELSE Then(emit(S, "MaxQueueTime", S.queue[i].callback, 0),
               LAMBDA T : [T EXCEPT !.queue = filter(@, id)])

\* the closure given to setTimeout in push
callback(S, id) ==
  LET i == find(S.queue, id)
      R == [S EXCEPT !.queue = filter(@, id)]
  IN IF i = 0
     THEN [R EXCEPT !.threw = "TypeError"]
     ELSE emit(R, "MaxQueueTime", S.queue[i].callback, 0)

\* shift() instead of pop(): the newest item leaves first
pullNewest(S) ==
  IF Len(S.queue) = 0
  THEN [S EXCEPT !.ret = Null]
  ELSE LET job == S.queue[1]
           R == [S EXCEPT !.queue = Tail(@)]
       IN [clearTimeout(R, job.timeoutID) EXCEPT !.ret = job.callback,
                                                 !.took = Append(@, job.id)]

\* the popped item's timer is left pending
pullNoClear(S) ==
  IF Len(S.queue) = 0
  THEN [S EXCEPT !.ret = Null]
  ELSE LET job == S.queue[Len(S.queue)]
       IN [S EXCEPT !.queue = SubSeq(@, 1, Len(@) - 1),
                    !.ret = job.callback,
                    !.took = Append(@, job.id)]

\* pull(): pop the last element, clear its timer
pull(S) ==
  IF Len(S.queue) = 0
  THEN [S EXCEPT !.ret = Null]
  ELSE LET job == S.queue[Len(S.queue)]
           R == [S EXCEPT !.queue = SubSeq(@, 1, Len(@) - 1)]
       IN [clearTimeout(R, job.timeoutID) EXCEPT !.ret = job.callback,
                                                 !.took = Append(@, job.id)]

\* the while loop of batch()
RECURSIVE batchLoop(_, _)
batchLoop(S, jobs) ==
  LET R == pull(S)
  IN IF R.ret = Null
     THEN [R EXCEPT !.jobs = jobs]
     ELSE batchLoop(R, Append(jobs, R.ret))

\* an if where the while should be: one job is pulled
batchOnce(S) ==
  LET R == pull(S)
  IN IF R.ret = Null
     THEN R
     ELSE [R EXCEPT !.ret = Array(1), !.jobs = <<R.ret>>]

\* batch(): the array of the jobs pulled, or null
batch(S) ==
  LET R == batchLoop(S, <<>>)
  IN IF Len(R.jobs) > 0
     THEN [R EXCEPT !.ret = Array(Len(R.jobs))]
     ELSE [R EXCEPT !.ret = Null, !.jobs = <<>>]

hasJob(S) == size(S) > 0

\* a queue of one job counts as empty
hasNoJobUpToOne(S) == size(S) <= 1

hasNoJob(S) == size(S) = 0

\* the two checks of the constructor
validTime(t) == isInteger(t) /\ isGreaterThan(t, 0)

\* Infinity is refused
validSizeNoInfinity(s) == isInteger(s) /\ isGreaterThan(s, 0)

validSize(s) == (isInteger(s) /\ isGreaterThan(s, 0)) \/ isInfinity(s)

\* new MQ(t, s): the error thrown, if any, and the two fields
constructor(t, s) ==
  IF ~validTime(t)
  THEN [threw |-> "MQError", message |-> "MaxQueueTime",
        MaxQueueTime |-> Undefined, maxQueueSize |-> Undefined]
  ELSE IF ~validSize(s)
  THEN [threw |-> "MQError", message |-> "MaxQueueSize",
        MaxQueueTime |-> Undefined, maxQueueSize |-> Undefined]
  ELSE [threw |-> "none", message |-> "",
        MaxQueueTime |-> t, maxQueueSize |-> s]

getMaxQueueTime == MaxQueueTime

getMaxQueueSize == maxQueueSize

(***************************************************************************)
(* The state machine.                                                      *)
(***************************************************************************)
Init ==
  /\ status = "unconstructed"
  /\ argT \in TimeArgs
  /\ argS \in SizeArgs
  /\ MaxQueueTime = Undefined
  /\ maxQueueSize = Undefined
  /\ queue = <<>>
  /\ timers = {}
  /\ nextSym = 1
  /\ nextTimer = 1
  /\ listeners = [e \in Events |-> <<>>]
  /\ pulled = <<>>
  /\ aged = <<>>
  /\ lastOp = NoOp

\* the counters stay inside the bounds of the model
Bounded(S) == S.nextSym <= MaxIds + 1

\* the record of a call that worked on S
Done(op, arg, id, S) ==
  [op |-> op, arg |-> arg, id |-> id, ret |-> S.ret, jobs |-> S.jobs,
   threw |-> S.threw, message |-> S.message, emits |-> S.emits,
   calls |-> S.calls, view |-> NoView]

\* the record of a call that works on no field of the queue
Asked(op, view) ==
  [op |-> op, arg |-> Undefined, id |-> 0, ret |-> Undefined, jobs |-> <<>>,
   threw |-> "none", message |-> "", emits |-> <<>>, calls |-> <<>>,
   view |-> view]

\* the object's fields take the values of S
Store(S) ==
  /\ queue' = S.queue
  /\ timers' = S.timers
  /\ nextSym' = S.nextSym
  /\ nextTimer' = S.nextTimer

Construct ==
  /\ status = "unconstructed"
  /\ LET c == constructor(argT, argS)
     IN /\ status' = IF c.threw = "none" THEN "ok" ELSE "error"
        /\ MaxQueueTime' = c.MaxQueueTime
        /\ maxQueueSize' = c.maxQueueSize
        /\ lastOp' = [Asked("new", NoView) EXCEPT
                        !.threw = c.threw, !.message = c.message]
  /\ UNCHANGED <<argT, argS, queue, timers, nextSym, nextTimer,
                 listeners, pulled, aged>>

\* Q.on(event, listener)
On(event, kind) ==
  /\ status = "ok"
  /\ Len(listeners["MaxQueueSize"]) + Len(listeners["MaxQueueTime"])
       < MaxListeners
  /\ listeners' = [listeners EXCEPT ![event] = Append(@, kind)]
  /\ lastOp' = Asked("on", NoView)
  /\ UNCHANGED <<status, argT, argS, MaxQueueTime, maxQueueSize, queue,
                 timers, nextSym, nextTimer, pulled, aged>>

\* Q.push(job) called by the application
Push(job) ==
  /\ status = "ok"
  /\ \E R \in {push(Cur, job, 1)} :
        /\ Bounded(R)
        /\ Store(R)
        /\ lastOp' = Done("push", job, 0, R)
  /\ UNCHANGED <<status, argT, argS, MaxQueueTime, maxQueueSize,
                 listeners, pulled, aged>>

\* Q.pull() called by the application
Pull ==
  /\ status = "ok"
  /\ \E R \in {pull(Cur)} :
        /\ Store(R)
        /\ pulled' = pulled \o R.took
        /\ lastOp' = Done("pull", Undefined, 0, R)
  /\ UNCHANGED <<status, argT, argS, MaxQueueTime, maxQueueSize,
                 listeners, aged>>

\* Q.batch() called by the application
Batch ==
  /\ status = "ok"
  /\ \E R \in {batch(Cur)} :
        /\ Store(R)
        /\ pulled' = pulled \o R.took
        /\ lastOp' = Done("batch", Undefined, 0, R)
  /\ UNCHANGED <<status, argT, argS, MaxQueueTime, maxQueueSize,
                 listeners, aged>>

\* the identifiers in a history
Range(h) == {h[k] : k \in 1..Len(h)}

\* the MaxQueueTime emits of a call, attributed to the timer's identifier
Reports(id, emits) ==
  LET sel == SelectSeq(emits, LAMBDA e : e.event = "MaxQueueTime")
  IN [k \in 1..Len(sel) |-> id]

\* the event loop runs the next due timer: it is one-shot, so it is no
\* longer pending when its callback runs
Expire ==
  /\ status = "ok"
  /\ DueTimers # {}
  /\ \E t \in {NextTimer} :
       \E R \in {callback([Cur EXCEPT !.timers = @ \ {t}], t.id)} :
         /\ Bounded(R)
         /\ Store(R)
         /\ aged' = aged \o Reports(t.id, R.emits)
         /\ lastOp' = Done("expire", Undefined, t.id, R)
  /\ UNCHANGED <<status, argT, argS, MaxQueueTime, maxQueueSize,
                 listeners, pulled>>

\* a millisecond passes for every pending timer that is not yet due
Tick ==
  /\ status = "ok"
  /\ \E t \in timers : t.left > 0
  /\ timers' = {[t EXCEPT !.left = IF @ > 0 THEN @ - 1 ELSE 0] : t \in timers}
  /\ UNCHANGED <<status, argT, argS, MaxQueueTime, maxQueueSize, queue,
                 nextSym, nextTimer, listeners, pulled, aged, lastOp>>

\* the application reads the six queries, one after the other; each is a
\* single return statement
Observe ==
  /\ status = "ok"
  /\ lastOp' = Asked("observe",
       [shouldPush |-> Bool(shouldPush(Cur)),
        size |-> Int_(size(Cur)),
        hasJob |-> Bool(hasJob(Cur)),
        hasNoJob |-> Bool(hasNoJob(Cur)),
        getMaxQueueTime |-> getMaxQueueTime,
        getMaxQueueSize |-> getMaxQueueSize])
  /\ UNCHANGED <<status, argT, argS, MaxQueueTime, maxQueueSize, queue,
                 timers, nextSym, nextTimer, listeners, pulled, aged>>

Next ==
  \/ Construct
  \/ \E e \in Events, k \in ListenerKinds : On(e, k)
  \/ \E j \in Jobs \cup NonCallables : Push(j)
  \/ Pull
  \/ Batch
  \/ Expire
  \/ Tick
  \/ Observe

Spec == Init /\ [][Next]_vars

\* the event loop keeps running: time passes and due timers fire
FairSpec == Spec /\ WF_vars(Tick) /\ WF_vars(Expire)

\* the closure of an item that pull() or batch() has taken is run all the
\* same: a timer whose cancellation came too late.  Node's clearTimeout
\* never lets this happen; it is the case the callback's lookup by
\* identifier has to face on a host where cancellation is not immediate.
Stale ==
  /\ status = "ok"
  /\ \E id \in Range(pulled) :
       \E R \in {callback(Cur, id)} :
         /\ Bounded(R)
         /\ Store(R)
         /\ aged' = aged \o Reports(id, R.emits)
         /\ lastOp' = Done("stale", Undefined, id, R)
  /\ UNCHANGED <<status, argT, argS, MaxQueueTime, maxQueueSize,
                 listeners, pulled>>

StaleNext == Next \/ Stale

\* the queue on a host that may run the callback of a cancelled timer
StaleSpec == Init /\ [][StaleNext]_vars

TypeOK ==
  /\ status \in {"unconstructed", "ok", "error"}
  /\ nextSym \in 1..(MaxIds + 1)

(***************************************************************************)
(* Properties.                                                             *)
(***************************************************************************)
\* the identifiers of the items of a queue
Ids(q) == {q[i].id : i \in 1..Len(q)}

\* the capacity is a number
Finite == maxQueueSize.type = "integer"

\* the least element of a non-empty set of integers
Min(X) == CHOOSE x \in X : \A y \in X : x <= y

\* the job pushed under identifier id, for an item of q
JobOf(q, id) == q[find(q, id)].callback

\* C1: with a finite maxQueueSize the queue never holds more than
\* maxQueueSize items, neither between calls nor when a listener looks at
\* size() in the middle of one
C1_CapacityBound ==
  (status = "ok" /\ Finite) =>
    /\ Len(queue) <= maxQueueSize.v
    /\ \A k \in 1..Len(lastOp.calls) : lastOp.calls[k].size <= maxQueueSize.v

\* an expiry whose listeners pushed the job back twice: one push was
\* admitted and filled the queue, the other was refused
C1_Witness ==
  /\ status = "ok" /\ Finite
  /\ Len(queue) = maxQueueSize.v
  /\ lastOp.op = "expire"
  /\ \E k \in 1..Len(lastOp.calls) : lastOp.calls[k].kind = "repush"
  /\ \E k \in 1..Len(lastOp.emits) : lastOp.emits[k].event = "MaxQueueSize"

\* C2: pull() returns null exactly when the queue is empty; otherwise it
\* removes and returns the job of the earliest admitted item still queued,
\* so the identifiers it hands out only grow
C2_PullOldest ==
  [][Pull =>
       IF queue = <<>>
       THEN lastOp'.ret = Null /\ queue' = queue /\ pulled' = pulled
       ELSE LET id == Min(Ids(queue))
            IN /\ lastOp'.ret # Null
               /\ lastOp'.ret = JobOf(queue, id)
               /\ pulled' = Append(pulled, id)
               /\ \A p \in Range(pulled) : p < id
               /\ Ids(queue') = Ids(queue) \ {id}
               /\ Len(queue') = Len(queue) - 1]_vars

\* a pull that returned one of two different queued jobs
C2_Witness ==
  /\ lastOp.op = "pull"
  /\ lastOp.ret # Null
  /\ Len(queue) >= 1
  /\ queue[1].callback # lastOp.ret

\* the event loop cannot run the next due timer inside the bounds of the model
ExpireCapped ==
  /\ DueTimers # {}
  /\ ~Bounded(callback([Cur EXCEPT !.timers = @ \ {NextTimer}], NextTimer.id))

\* item id is queued and maxQueueTime has elapsed since its push
Overdue(id) ==
  /\ id \in Ids(queue)
  /\ \E t \in timers : t.id = id /\ t.left = 0

\* the number of entries of a history that satisfy a test
Count(h, Test(_)) == Cardinality({k \in 1..Len(h) : Test(h[k])})

C4_PulledNeverReported ==
  \A id \in Range(pulled) :
    /\ id \notin Range(aged)
    /\ ~(lastOp.op = "expire" /\ lastOp.id = id)

\* a job was pulled and a later push has since expired: the clock is past
\* the pulled item's due time
C4_Witness ==
  /\ pulled # <<>>
  /\ lastOp.op = "expire"
  /\ lastOp.id > pulled[1]
  /\ aged # <<>>

C6_BatchPullsAll ==
  [][Batch =>
       LET took == SubSeq(pulled', Len(pulled) + 1, Len(pulled'))
       IN /\ queue' = <<>>
          /\ Len(pulled') = Len(pulled) + Len(queue)
          /\ SubSeq(pulled', 1, Len(pulled)) = pulled
          /\ Range(took) = Ids(queue)
          /\ \A a, b \in 1..Len(took) : a < b => took[a] < took[b]
          /\ timers' = {t \in timers : t.id \notin Ids(queue)}
          /\ IF queue = <<>>
             THEN lastOp'.ret = Null /\ lastOp'.jobs = <<>>
             ELSE /\ lastOp'.ret = Array(Len(queue))
                  /\ Len(lastOp'.jobs) = Len(queue)
                  /\ \A k \in 1..Len(queue) :
                       lastOp'.jobs[k] = JobOf(queue, took[k])]_vars

\* a batch that returned two different jobs
C6_Witness ==
  /\ lastOp.op = "batch"
  /\ Len(lastOp.jobs) >= 2
  /\ lastOp.jobs[1] # lastOp.jobs[2]
  /\ queue = <<>>

\* C7: push of a non-callable throws and changes nothing: no item, no
\* timer, no notification, at capacity or not
C7_InvalidJobRejected ==
  [][\A j \in NonCallables :
       Push(j) =>
         /\ lastOp'.threw = "MQError"
         /\ lastOp'.emits = <<>>
         /\ lastOp'.calls = <<>>
         /\ UNCHANGED <<queue, timers, nextSym, nextTimer, listeners,
                        pulled, aged>>]_vars

\* a non-callable was pushed into a full queue
C7_Witness ==
  /\ lastOp.op = "push"
  /\ lastOp.arg \in NonCallables
  /\ lastOp.threw = "MQError"
  /\ Finite /\ Len(queue) = maxQueueSize.v
  /\ listeners["MaxQueueSize"] # <<>>

\* the arguments the constructor is documented to accept
ValidArgs ==
  /\ argT.type = "integer" /\ argT.v >= 1
  /\ \/ argS.type = "integer" /\ argS.v >= 1
     \/ argS = Infinity

\* C8: construction succeeds exactly on valid arguments and throws
\* otherwise; the queue starts empty and the two getters return the
\* arguments, whatever has been called since
C8_Construction ==
  status # "unconstructed" =>
    /\ (status = "ok") <=> ValidArgs
    /\ status = "error" =>
         lastOp.op = "new" /\ lastOp.threw = "MQError" /\ queue = <<>>
    /\ status = "ok" =>
         /\ lastOp.op = "new" =>
              lastOp.threw = "none" /\ queue = <<>> /\ timers = {}
         /\ lastOp.op = "observe" =>
              /\ lastOp.view.getMaxQueueTime = argT
              /\ lastOp.view.getMaxQueueSize = argS

\* the getters were read on an unbounded queue that has been used
C8_Witness ==
  /\ status = "ok"
  /\ lastOp.op = "observe"
  /\ lastOp.view.getMaxQueueSize = Infinity
  /\ lastOp.view.getMaxQueueTime = Int_(1)
  /\ pulled # <<>>

\* C9: shouldPush() is true exactly when maxQueueSize is unbounded or
\* size() is below it, and reading it changes nothing
C9_ShouldPush ==
  [][Observe =>
       /\ lastOp'.view.shouldPush =
            Bool(\/ maxQueueSize = Infinity
                 \/ Finite /\ Len(queue) < maxQueueSize.v)
       /\ UNCHANGED <<queue, timers, nextSym, nextTimer, listeners,
                      pulled, aged, MaxQueueTime, maxQueueSize>>]_vars

\* shouldPush() was false on a full queue
C9_Witness ==
  /\ lastOp.op = "observe"
  /\ lastOp.view.shouldPush = Bool(FALSE)
  /\ Len(queue) = 2

\* C10 as stated: push of a callable job returns
C10_PushReturns ==
  (lastOp.op = "push" /\ isFunction(lastOp.arg)) => lastOp.threw = "none"

\* C11: whenever the object exists hasJob() and hasNoJob() return opposite
\* values, hasJob() being size() > 0 and hasNoJob() being size() = 0, in the
\* state itself and in what the application last read
C11_HasJobComplement ==
  status = "ok" =>
    /\ hasJob(Cur) = ~hasNoJob(Cur)
    /\ hasJob(Cur) = (size(Cur) > 0)
    /\ hasNoJob(Cur) = (Len(queue) = 0)
    /\ lastOp.op = "observe" =>
         /\ lastOp.view.hasJob # lastOp.view.hasNoJob
         /\ lastOp.view.hasJob = Bool(lastOp.view.size.v > 0)
         /\ lastOp.view.hasNoJob = Bool(lastOp.view.size.v = 0)
         /\ lastOp.view.size = Int_(Len(queue))

\* the queries were read on a queue of one job left by an expiry
C11_Witness ==
  /\ lastOp.op = "observe"
  /\ lastOp.view.hasJob = Bool(TRUE)
  /\ lastOp.view.hasNoJob = Bool(FALSE)
  /\ Len(queue) = 1
  /\ aged # <<>>

\* C12: between calls the pending timers are those of the queued items:
\* every queued item has one pending timer, the one whose handle it holds,
\* and an item that left by pull, batch or expiry has none
C12_TimersMatchQueue ==
  status = "ok" =>
    /\ {t.id : t \in timers} = Ids(queue)
    /\ Cardinality(timers) = Len(queue)
    /\ \A i \in 1..Len(queue) :
         \E t \in timers :
           t.timeoutID = queue[i].timeoutID /\ t.id = queue[i].id
    /\ \A id \in Range(pulled) \cup Range(aged) :
         \A t \in timers : t.id # id

\* a pull took one of two queued items: one timer is left, that of the
\* item still queued
C12_Witness ==
  /\ lastOp.op = "pull"
  /\ lastOp.ret # Null
  /\ Len(queue) = 1
  /\ \E t \in timers : t.id = queue[1].id /\ t.id \notin Range(pulled)

\* C13 as stated: an expiry callback that runs when its item has already
\* been taken by pull() or batch() leaves the queue as it is, invokes no
\* notification and raises no error
C13_StaleCallbackNoOp ==
  [][Stale =>
       /\ queue' = queue
       /\ timers' = timers
       /\ aged' = aged
       /\ lastOp'.emits = <<>>
       /\ lastOp'.calls = <<>>
       /\ lastOp'.threw = "none"]_vars

\* the step is a call of push(job) by the application; the record of the
\* call is looked at first
Pushed(job) == lastOp'.op = "push" /\ lastOp'.arg = job /\ Push(job)

\* the step is the run of a due timer's callback
Expired == lastOp'.op = "expire" /\ Expire

\* the jobs held by the items of a queue
JobsIn(q) == {q[i].callback : i \in 1..Len(q)}

\* the queue holds maxQueueSize items
AtCapacity == Finite /\ Len(queue) >= maxQueueSize.v

\* C14: a push refused at capacity creates no item, no timer and no
\* identifier; an item enters the queue only by an admitted push of its job
\* (by the application below capacity, or by a listener pushing an expired
\* job back), and pull(), batch() and the MaxQueueTime notification only
\* hand out jobs of queued items: a refused job that is not pushed again is
\* never returned nor reported on account of that push
C14_RejectedNotQueued ==
  /\ [][\A j \in Jobs :
          (Pushed(j) /\ AtCapacity) =>
            /\ queue' = queue /\ timers' = timers
            /\ nextSym' = nextSym /\ nextTimer' = nextTimer]_vars
  /\ [][\A i \in 1..Len(queue') :
          queue'[i].id \notin Ids(queue) =>
            \/ /\ lastOp'.op = "push" /\ ~AtCapacity
               /\ queue'[i].callback = lastOp'.arg
            \/ /\ lastOp'.op = "expire"
               /\ queue'[i].callback = JobOf(queue, lastOp'.id)
               /\ \E k \in 1..Len(lastOp'.calls) :
                    lastOp'.calls[k].kind = "repush"]_vars
  /\ [][/\ Pull => lastOp'.ret \in JobsIn(queue) \cup {Null}
        /\ Batch => \A k \in 1..Len(lastOp'.jobs) :
                       lastOp'.jobs[k] \in JobsIn(queue)
        /\ Expired => \A k \in 1..Len(lastOp'.emits) :
                        lastOp'.emits[k].event = "MaxQueueTime" =>
                          lastOp'.emits[k].job \in JobsIn(queue)]_vars

\* a job was refused by a full queue that holds only the other job: it has
\* no item and no timer
C14_Witness ==
  /\ lastOp.op = "push"
  /\ lastOp.threw = "none"
  /\ lastOp.emits # <<>>
  /\ AtCapacity
  /\ lastOp.arg \notin JobsIn(queue)
  /\ Cardinality(timers) = Len(queue)

\* C15: push of a callable job below capacity (always, when maxQueueSize is
\* Infinity) adds one item, so size() grows by one; creates one timer, due
\* maxQueueTime later, for that item; leaves the items already queued, their
\* order and their timers as they were; and invokes no listener.  With
\* maxQueueSize Infinity no call ever emits MaxQueueSize.
C15_AdmittedPush ==
  /\ [][\A j \in Jobs :
          (Pushed(j) /\ ~AtCapacity) =>
            /\ Len(queue') = Len(queue) + 1
            /\ Tail(queue') = queue
            /\ queue'[1] = [id |-> nextSym, timeoutID |-> nextTimer,
                            callback |-> j]
            /\ nextSym \notin Ids(queue)
            /\ timers' = timers \cup {[timeoutID |-> nextTimer,
                                        id |-> nextSym,
                                        left |-> MaxQueueTime.v]}
            /\ Cardinality(timers') = Cardinality(timers) + 1
            /\ lastOp'.emits = <<>>
            /\ lastOp'.calls = <<>>
            /\ lastOp'.threw = "none"
            /\ pulled' = pulled /\ aged' = aged]_vars
  /\ [](maxQueueSize = Infinity =>
          \A k \in 1..Len(lastOp.emits) :
            lastOp.emits[k].event # "MaxQueueSize")

\* a second push into an unbounded queue with a MaxQueueSize listener, made
\* when the first item was already due
C15_Witness ==
  /\ lastOp.op = "push"
  /\ maxQueueSize = Infinity
  /\ Len(queue) = 2
  /\ listeners["MaxQueueSize"] # <<>>
  /\ \E t \in timers : t.id = queue[2].id /\ t.left = 0
  /\ \E t \in timers : t.id = queue[1].id /\ t.left = MaxQueueTime.v

\* C16: the expiry callback removes its item before the MaxQueueTime
\* listeners run: the first listener is called with the expired job and
\* sees size() one lower than before the expiry; if it pushes the job
\* back, that push is admitted, also when the queue was full before the
\* expiry: the job is queued again under a new identifier with a new timer
\* of the full delay, and the queue stays within maxQueueSize
C16_ExpiryFreesSlot ==
  [][Expired =>
       LET id == NextTimer.id
           job == JobOf(queue, id)
           subs == listeners["MaxQueueTime"]
       IN /\ id \notin Ids(queue')
          /\ subs # <<>> =>
               /\ lastOp'.calls # <<>>
               /\ lastOp'.calls[1].event = "MaxQueueTime"
               /\ lastOp'.calls[1].job = job
               /\ lastOp'.calls[1].size = Len(queue) - 1
          /\ (subs # <<>> /\ subs[1] = "repush") =>
               /\ nextSym # id
               /\ \E i \in 1..Len(queue') :
                    queue'[i] = [id |-> nextSym, timeoutID |-> nextTimer,
                                 callback |-> job]
               /\ [timeoutID |-> nextTimer, id |-> nextSym,
                   left |-> MaxQueueTime.v] \in timers'
               /\ \A t \in timers' : t.id # id
               /\ Finite => Len(queue') <= maxQueueSize.v]_vars

\* the job of a full queue expired and its one listener pushed it back: the
\* push was admitted without a MaxQueueSize emit and the queue is full again
C16_Witness ==
  /\ lastOp.op = "expire"
  /\ Len(lastOp.calls) = 1
  /\ lastOp.calls[1].kind = "repush"
  /\ Len(lastOp.emits) = 1
  /\ Finite /\ Len(queue) = maxQueueSize.v
  /\ queue[1].id > lastOp.id
  /\ queue[1].callback = lastOp.emits[1].job

\* C17: items are told apart by the identifier of their push, never by
\* their job: pushing a job that is already queued adds a second item with
\* its own identifier, and an expiry removes the item of the timer that
\* fired and no other: the remaining items, one holding the same job
\* included, keep their order and their pending timers
C17_RemovalById ==
  /\ [][\A j \in Jobs :
          (Pushed(j) /\ ~AtCapacity /\ j \in JobsIn(queue)) =>
            /\ Len(queue') = Len(queue) + 1
            /\ \E a, b \in 1..Len(queue') :
                 /\ queue'[a].callback = j /\ queue'[b].callback = j
                 /\ queue'[a].id # queue'[b].id]_vars
  /\ [][Expired =>
          LET id == NextTimer.id
          IN /\ SelectSeq(queue', LAMBDA item : item.id \in Ids(queue))
                  = SelectSeq(queue, LAMBDA item : item.id # id)
             /\ \A t \in timers : t.id # id => t \in timers']_vars

\* the same job was pushed twice and the first item has expired: the second
\* item, holding that same job, is still queued with its timer
C17_Witness ==
  /\ lastOp.op = "expire"
  /\ lastOp.calls = <<>>
  /\ Len(queue) = 1
  /\ queue[1].callback = lastOp.emits[1].job
  /\ queue[1].id # lastOp.id
  /\ \E t \in timers : t.id = queue[1].id

\* C18: size() is the number of admitted pushes less the jobs returned by
\* pull() and batch() less the MaxQueueTime notifications: every admitted
\* item is in one place only, the queue, the retrieved or the reported,
\* and appears there once
C18_SizeAccounting ==
  status = "ok" =>
    /\ size(Cur) = (nextSym - 1) - Len(pulled) - Len(aged)
    /\ \A id \in 1..(nextSym - 1) :
         /\ id \in Ids(queue) \cup Range(pulled) \cup Range(aged)
         /\ ~(id \in Ids(queue) /\ id \in Range(pulled))
         /\ ~(id \in Ids(queue) /\ id \in Range(aged))
         /\ ~(id \in Range(pulled) /\ id \in Range(aged))
    /\ Ids(queue) \cup Range(pulled) \cup Range(aged) \subseteq 1..(nextSym - 1)
    /\ Cardinality(Ids(queue)) = Len(queue)
    /\ Cardinality(Range(pulled)) = Len(pulled)
    /\ Cardinality(Range(aged)) = Len(aged)

\* of two admitted jobs one was retrieved and the other reported: the queue
\* is empty
C18_Witness ==
  /\ status = "ok"
  /\ nextSym = 3
  /\ Len(pulled) = 1
  /\ Len(aged) = 1
  /\ queue = <<>>
  /\ lastOp.op = "expire"

\* C19: all the timers have the same delay, so the callback that fires is
\* that of the oldest item queued, the one pull() would return next: the
\* expiry takes the item at the end pull() pops from, never one from the
\* middle, and the MaxQueueTime notifications come in admission order
C19_ExpiryTakesOldest ==
  [][Expired =>
       LET id == NextTimer.id
       IN /\ queue # <<>>
          /\ queue[Len(queue)].id = id
          /\ id = Min(Ids(queue))
          /\ pull(Cur).took = <<id>>
          /\ \A a \in Range(aged) : a < id
          /\ SelectSeq(queue', LAMBDA item : item.id \in Ids(queue))
               = SubSeq(queue, 1, Len(queue) - 1)]_vars

\* two items were due at once: the older one expired first and the other,
\* still due, is left in the queue
C19_Witness ==
  /\ lastOp.op = "expire"
  /\ lastOp.calls = <<>>
  /\ Len(queue) = 1
  /\ queue[1].id > lastOp.id
  /\ \E t \in timers : t.id = queue[1].id /\ t.left = 0

\* the calls of listener i of an event among the first p listener calls of
\* the last operation
CallsOf(event, i, p) ==
  Cardinality({k \in 1..p : /\ lastOp.calls[k].event = event
                            /\ lastOp.calls[k].idx = i})

\* C20 as stated: every notification of the last operation invoked every
\* subscriber of its channel once, with the job of the notification, in
\* subscription order: each subscriber was called as many times as the
\* channel was notified, and never before the subscriber ahead of it
C20_Broadcast ==
  \A event \in Events :
    \A i \in 1..Len(listeners[event]) :
      /\ CallsOf(event, i, Len(lastOp.calls)) =
           Count(lastOp.emits, LAMBDA e : e.event = event)
      /\ \A k \in 1..Len(lastOp.calls) :
           (lastOp.calls[k].event = event /\ lastOp.calls[k].idx = i) =>
             /\ lastOp.calls[k].kind = listeners[event][i]
             /\ \E n \in 1..Len(lastOp.emits) :
                  lastOp.emits[n] = [event |-> event,
                                     job |-> lastOp.calls[k].job]
      /\ i > 1 =>
           \A p \in 1..Len(lastOp.calls) :
             CallsOf(event, i, p) <= CallsOf(event, i - 1, p)

====
